---- MODULE Spec2Model ----
(***************************************************************************)
(* Model of the giveaway lifecycle of src/bot.py: the in-memory giveaway   *)
(* table (bot.giveaways), the commands /giveaway start, end and reroll,    *)
(* the Join button, the auto-end task armed by start, and end_giveaway.    *)
(* The bot runs on one asyncio event loop: a handler runs atomically from  *)
(* one await to the next, so every action below is the code between two    *)
(* awaits of one handler, and the handlers interleave at the awaits.       *)
(***************************************************************************)
EXTENDS Integers, Sequences, FiniteSets, TLC

\* ------------------------------------------------------------------ bounds
MaxUsers == 2
MaxGiveaways == 1
MaxSlots == 1
MaxWinners == 2

Users == 1 .. MaxUsers
Mids == 1 .. MaxGiveaways
Slots == 1 .. MaxSlots

\* ------------------------------------------------------- program constants
\* Role ids are abbreviated: 1..7 are the seven roles of BONUS_ROLES in the
\* order of the table, 8 is the host role, 9 is a role outside every table.
GIVEAWAY_HOST_ROLE_ID == 8
MemberRole == 9
BONUS_ROLES == <<1, 2, 3, 4, 5, 6, 8>>
None == 0

EmptyTable == [r \in {} |-> 0]

\* --------------------------------------------------------------- helpers
Min(a, b) == IF a <= b THEN a ELSE b
Max(a, b) == IF a >= b THEN a ELSE b

RECURSIVE SumBonus(_, _)
SumBonus(table, held) ==
    IF held = {} THEN 0
    ELSE LET r == CHOOSE x \in held : TRUE
         IN table[r] + SumBonus(table, held \ {r})

\* Faulty variant of member_has_giveaway_role: any role passes for the host role.
member_has_any_role(mroles) == mroles # {}

\* member_has_giveaway_role: any(r.id == GIVEAWAY_HOST_ROLE_ID for r in member.roles)
member_has_giveaway_role(mroles) == GIVEAWAY_HOST_ROLE_ID \in mroles

\* Faulty variant of calculate_entries_for_member: the giveaway's own table is not
\* counted.
calculate_entries_global_only(mroles, gw_extra) ==
    Max(1, 1 + SumBonus(BONUS_ROLES, DOMAIN BONUS_ROLES \cap mroles))

\* calculate_entries_for_member: 1 + every held role of BONUS_ROLES + every held
\* role of gw_extra (two separate loops: a role in both tables counts twice).
calculate_entries_for_member(mroles, gw_extra) ==
    LET entries == 1 + SumBonus(BONUS_ROLES, DOMAIN BONUS_ROLES \cap mroles)
                     + SumBonus(gw_extra, DOMAIN gw_extra \cap mroles)
    IN Max(1, entries)

\* parse_extra_entries_string, after the split at "," and ":" and the int()
\* conversions: parts is the list of <<role id, bonus>> pairs, with Unparsable
\* for a part without ":" or whose int() raises. A bonus that is not positive
\* is dropped; a repeated role id keeps its last bonus.
Unparsable == <<0>>

RECURSIVE ParseParts(_, _)
ParseParts(parts, parsed) ==
    IF parts = <<>> THEN parsed
    ELSE LET p == Head(parts)
         IN ParseParts(Tail(parts),
                IF Len(p) = 2 /\ p[2] > 0
                THEN [r \in DOMAIN parsed \cup {p[1]} |->
                         IF r = p[1] THEN p[2] ELSE parsed[r]]
                ELSE parsed)

parse_extra_entries_string(parts) == ParseParts(parts, EmptyTable)

\* merged_extras = dict(BONUS_ROLES); merged_extras.update(gw_extra): the table
\* the announcement shows under "Extra Entries".
merged_extras(gw_extra) ==
    [r \in DOMAIN BONUS_ROLES \cup DOMAIN gw_extra |->
        IF r \in DOMAIN gw_extra THEN gw_extra[r] ELSE BONUS_ROLES[r]]


\* Faulty variant of EndEligible: the required-role test is left out.
EndEligibleNoRoleCheck(gw, mem, rl) ==
    { u \in gw.participants : u \in mem }

\* The participants still in the guild who hold the required role, if one is
\* configured (end_giveaway: "filter required role & compute entries").
EndEligible(gw, mem, rl) ==
    { u \in gw.participants :
        /\ u \in mem
        /\ (gw.required_role_id # None => gw.required_role_id \in rl[u]) }

\* Faulty variant of RerollEligible: the entrants are taken as they were stored, with no
\* look at the guild at reroll time.
RerollEligibleStale(gw, mem, rl) == gw.participants

\* The same filter, as giveaway_reroll repeats it.
RerollEligible(gw, mem, rl) ==
    { u \in gw.participants :
        /\ u \in mem
        /\ (gw.required_role_id # None => gw.required_role_id \in rl[u]) }

Repeat(u, n) == [i \in 1 .. n |-> u]

\* pool.extend([uid] * entries) for every eligible member; the members are taken
\* in increasing uid order (the order does not matter to random.choice).
RECURSIVE BuildPool(_, _, _)
BuildPool(elig, gw_extra, rl) ==
    IF elig = {} THEN <<>>
    ELSE LET u == CHOOSE x \in elig : \A y \in elig : x <= y
         IN Repeat(u, calculate_entries_for_member(rl[u], gw_extra))
              \o BuildPool(elig \ {u}, gw_extra, rl)

SeqRange(s) == { s[i] : i \in DOMAIN s }

\* Faulty variant of RemovePicked: pool.remove(pick), which drops one ticket only.
RemoveOnePicked(pool, pick) ==
    LET i == CHOOSE k \in DOMAIN pool : pool[k] = pick /\ \A j \in 1 .. k - 1 : pool[j] # pick
    IN SubSeq(pool, 1, i - 1) \o SubSeq(pool, i + 1, Len(pool))

\* pool = [x for x in pool if x != pick]
RemovePicked(pool, pick) ==
    LET keep(x) == x # pick IN SelectSeq(pool, keep)

\* for _ in range(winners_count): pick = random.choice(pool); append; filter;
\* break when the pool is empty. The set of winner lists the loop can produce.
RECURSIVE DrawLoop(_, _, _)
DrawLoop(pool, n, acc) ==
    IF n = 0 THEN {acc}
    ELSE UNION { LET pick == pool[i]
                     rest == RemovePicked(pool, pick)
                 IN IF rest = <<>> THEN {Append(acc, pick)}
                    ELSE DrawLoop(rest, n - 1, Append(acc, pick))
                 : i \in DOMAIN pool }

\* winners_count = min(gw["winners"], len(set(pool))), then the loop.
DrawWinners(pool, winners) ==
    DrawLoop(pool, Min(winners, Cardinality(SeqRange(pool))), <<>>)

\* Faulty variant of RerollDrawWinners: a reroll that draws one winner only.
RerollDrawWinnersSingle(pool, winners) == DrawLoop(pool, 1, <<>>)

\* giveaway_reroll's own copy of the draw: winners_count = min(gw["winners"],
\* len(set(pool))), then the same loop.
RerollDrawWinners(pool, winners) ==
    DrawLoop(pool, Min(winners, Cardinality(SeqRange(pool))), <<>>)

\* ------------------------------------------------ parse_duration_to_seconds
\* A string is a sequence of one-character strings. The characters the duration
\* argument is tried on: decimal digits, the four unit letters and an upper-case
\* one, a blank, a letter that is no unit, a minus sign, and SuperTwo, a
\* character str.isdigit() accepts that neither int() nor the pattern's \d does.
SuperTwo == "sup2"
DecimalDigits == {"0", "1", "2", "3", "5", "6", "9"}
DigitValue == [c \in DecimalDigits |->
                 CASE c = "0" -> 0 [] c = "1" -> 1 [] c = "2" -> 2 [] c = "3" -> 3
                   [] c = "5" -> 5 [] c = "6" -> 6 [] c = "9" -> 9]
Whitespace == {" "}
UnitLetters == <<"d", "h", "m", "s">>
UnitSeconds == <<86400, 3600, 60, 1>>

\* What the call gives besides a positive number: None, or the ValueError that
\* int() raises, which nothing in giveaway_start catches.
Raised == -1
NoMatch == -2

\* s.strip()
RECURSIVE Strip(_)
Strip(str) ==
    IF str = <<>> THEN str
    ELSE IF Head(str) \in Whitespace THEN Strip(Tail(str))
    ELSE IF str[Len(str)] \in Whitespace THEN Strip(SubSeq(str, 1, Len(str) - 1))
    ELSE str

\* s.lower()
Lower(str) ==
    [i \in DOMAIN str |->
        CASE str[i] = "D" -> "d" [] str[i] = "H" -> "h" [] str[i] = "M" -> "m"
          [] str[i] = "S" -> "s" [] OTHER -> str[i]]

\* s.isdigit(), for a string that is not empty
IsDigit(str) == \A i \in DOMAIN str : str[i] \in DecimalDigits \cup {SuperTwo}

\* int(s) for a string of decimal digits
RECURSIVE IntOf(_)
IntOf(str) ==
    IF str = <<>> THEN 0
    ELSE 10 * IntOf(SubSeq(str, 1, Len(str) - 1)) + DigitValue[str[Len(str)]]

\* The first index from i on that holds no character of `class`.
RECURSIVE SkipWhile(_, _, _)
SkipWhile(str, i, class) ==
    IF i <= Len(str) /\ str[i] \in class THEN SkipWhile(str, i + 1, class) ELSE i

\* Faulty variant of UnitRank: the units count in the order s, m, h, d.
UnitRankReversed(c) ==
    IF c = "s" THEN 1 ELSE IF c = "m" THEN 2 ELSE IF c = "h" THEN 3
    ELSE IF c = "d" THEN 4 ELSE 0

\* The place of a unit letter in the pattern, 0 for any other character.
UnitRank(c) ==
    IF c = "d" THEN 1 ELSE IF c = "h" THEN 2 ELSE IF c = "m" THEN 3
    ELSE IF c = "s" THEN 4 ELSE 0

\* re.fullmatch(pattern, s) and the sum over the groups that matched, from
\* index i on: blanks, then either the end or one more component (digits,
\* blanks, a unit letter not before place `rank` of the pattern).
RECURSIVE MatchComponents(_, _, _, _)
MatchComponents(str, i, rank, total) ==
    LET j == SkipWhile(str, i, Whitespace)
        k == SkipWhile(str, j, DecimalDigits)
        l == SkipWhile(str, k, Whitespace)
    IN IF j > Len(str) THEN total
       ELSE IF k = j \/ l > Len(str) THEN NoMatch
       ELSE IF UnitRank(str[l]) < rank \/ UnitRank(str[l]) = 0 THEN NoMatch
       ELSE MatchComponents(str, l + 1, UnitRank(str[l]) + 1,
                total + IntOf(SubSeq(str, j, k - 1)) * UnitSeconds[UnitRank(str[l])])

\* return sec if sec > 0 else None
PositiveOrNone(n) == IF n > 0 THEN n ELSE None

parse_duration_to_seconds(str) ==
    LET s == Lower(Strip(str))
    IN IF s = <<>> THEN None
       ELSE IF IsDigit(s)
       THEN IF \E i \in DOMAIN s : s[i] = SuperTwo THEN Raised
            ELSE PositiveOrNone(IntOf(s))
       ELSE PositiveOrNone(MatchComponents(s, 1, 1, 0))

\* ------------------------------------------------------------------- state
VARIABLES
    giveaways,   \* bot.giveaways: message id -> giveaway dict
    proc,        \* every handler and auto-end task: where it is suspended
    members,     \* the guild's member cache: the users in the guild
    roles,       \* the roles each user holds
    msgs,        \* the announcement messages on the platform
    controls,    \* message ids whose buttons hang on a separate controls message
    nextId,      \* the next message id the platform hands out
    draws,       \* per giveaway, how many winner draws end_giveaway has made
    published,   \* per giveaway, how many resolution edits have landed
    lastReply,   \* the response or follow-up the latest step sent, if any
    durationArg, \* a duration argument parse_duration_to_seconds is tried on
    secondsRet,  \* what parse_duration_to_seconds made of it
    count_locks, \* bot.count_locks: per counting channel, the handler holding its lock
    pending_prompts, \* bot.pending_prompts: per channel, the prompt_num on record
    counting,    \* the counting table as statements on bot.db see it
    committed,   \* the counting table as of the last commit
    in_transaction, \* whether bot.db has a transaction open
    history,     \* per channel, the numbers of the bot's messages among the recent ones
    handlers,    \* the on_message handlers of number messages: where each is suspended
    reporter,    \* a /report or /suggest handler: where it is suspended
    counted      \* the number message the latest step finished with, if any

giveawayVars == <<giveaways, proc, members, roles, msgs, controls, nextId, draws,
                  published, lastReply>>
pureVars == <<durationArg, secondsRet>>
countVars == <<count_locks, pending_prompts, counting, committed, in_transaction,
               history, handlers, reporter, counted>>
otherVars == <<pureVars, countVars>>
vars == <<giveawayVars, otherVars>>

Cmd(i) == <<"cmd", i>>
Timer(g) == <<"timer", g>>
CmdProcs == { Cmd(i) : i \in Slots }
TimerProcs == { Timer(g) : g \in Mids }
Procs == CmdProcs \cup TimerProcs

Idle == [op |-> "none", pc |-> "idle", mid |-> 0, picks |-> <<>>]
NoMsg == [embed |-> "none", view |-> FALSE]
\* What a step sent as interaction response or follow-up; NoReply when it sent
\* nothing. picks are the winners a reroll names, shown the <<participant,
\* entry count>> options of View Participants.
Reply(mid, text, picks) ==
    [mid |-> mid, text |-> text, picks |-> picks, shown |-> <<>>]
NoReply == Reply(0, "none", <<>>)
\* The message id a response is about: none before the command has parsed it.
ReplyMid(text, midIn) ==
    IF text \in {"UseInServer", "ForbiddenEnd", "ForbiddenReroll", "InvalidId"}
    THEN 0 ELSE midIn

\* The role sets the users start with, and the inputs the commands are tried on.
InitRoles == [u \in Users |-> IF u = 1 THEN {GIVEAWAY_HOST_ROLE_ID, MemberRole}
                                ELSE {MemberRole, 2, 3}]
ExtraInputs == { parse_extra_entries_string(<<<<2, 1>>>>) }
RequiredInputs == { None, MemberRole }
SecondsInputs ==
    { parse_duration_to_seconds(d) : d \in { <<"x">>, <<"6", "0">> } }
BadId == -1
MidInputs == Mids \cup {MaxGiveaways + 1, BadId}
\* The requests /giveaway end and /giveaway reroll are tried on: every caller
\* with every message id in the guild with the channel in place, and one
\* request outside a guild and one per giveaway whose channel is gone.
CmdInputs ==
    { [caller |-> c, inGuild |-> TRUE, midIn |-> m, chanOk |-> TRUE] :
        c \in Users, m \in MidInputs }
    \cup { [caller |-> 1, inGuild |-> FALSE, midIn |-> 1, chanOk |-> TRUE] }
    \cup { [caller |-> 1, inGuild |-> TRUE, midIn |-> m, chanOk |-> FALSE] : m \in Mids }
StartInputs ==
    { [caller |-> c, inGuild |-> TRUE, seconds |-> s] :
        c \in Users, s \in SecondsInputs }
    \cup { [caller |-> 1, inGuild |-> FALSE, seconds |-> 60] }

\* The parts of the bot a run of the giveaway commands leaves alone.
Unset == -3
PureInit ==
    /\ durationArg = <<>>
    /\ secondsRet = Unset

\* The counting game: two counting channels, number messages with the numbers
\* 1 .. MaxNumber, MaxHandlers on_message handlers under way at a time.
COUNTING_CHANNEL_IDS == {1, 2}
MaxNumber == 3
MaxHandlers == 2
Numbers == 1 .. MaxNumber
Handlers == 1 .. MaxHandlers
\* No row for the channel in the counting table.
Absent == -1
Unlocked == 0
IdleHandler == [pc |-> "idle", ch |-> 0, n |-> 0]
NoCount == [ch |-> 0, n |-> 0, res |-> "none"]

\* setup_hook on a fresh database: the counting table is created empty.
CountInit ==
    /\ count_locks = [c \in COUNTING_CHANNEL_IDS |-> Unlocked]
    /\ pending_prompts = [c \in COUNTING_CHANNEL_IDS |-> None]
    /\ counting = [c \in COUNTING_CHANNEL_IDS |-> Absent]
    /\ committed = [c \in COUNTING_CHANNEL_IDS |-> Absent]
    /\ in_transaction = FALSE
    /\ history = [c \in COUNTING_CHANNEL_IDS |-> {}]
    /\ handlers = [h \in Handlers |-> IdleHandler]
    /\ reporter = "idle"
    /\ counted = NoCount

OtherInit == PureInit /\ CountInit

GiveawayInit ==
    /\ giveaways = [m \in {} |-> 0]
    /\ proc = [p \in Procs |-> Idle]
    /\ members = Users
    /\ roles = InitRoles
    /\ msgs = [m \in Mids |-> NoMsg]
    /\ controls = {}
    /\ nextId = 1
    /\ draws = [m \in Mids |-> 0]
    /\ published = [m \in Mids |-> 0]
    /\ lastReply = NoReply

Init == OtherInit /\ GiveawayInit

\* ------------------------------------------------------------ environment
\* A member leaves the guild: guild.get_member(uid) returns None from then on,
\* and the member's roles go with the membership.
MemberLeave(u) ==
    /\ u \in members
    /\ members' = members \ {u}
    /\ roles' = [roles EXCEPT ![u] = {}]
    /\ lastReply' = NoReply
    /\ UNCHANGED <<giveaways, proc, msgs, controls, nextId, draws,
                   published>>
    /\ UNCHANGED otherVars

\* A member loses the role giveaways require.
RoleRemoved(u) ==
    /\ MemberRole \in roles[u]
    /\ roles' = [roles EXCEPT ![u] = @ \ {MemberRole}]
    /\ lastReply' = NoReply
    /\ UNCHANGED <<giveaways, proc, members, msgs, controls, nextId, draws,
                   published>>
    /\ UNCHANGED otherVars

\* ------------------------------------------------------------ Join button
\* The buttons can be pressed while a message carries the view.
Clickable(mid) == msgs[mid].view \/ mid \in controls

\* JoinButton.callback up to its answer: not tracked, missing role, already
\* entered, or entered. There is no await on the way.
JoinResult(u, mid) ==
    IF mid \notin DOMAIN giveaways THEN "NotTracked"
    ELSE LET gw == giveaways[mid]
         IN IF gw.required_role_id # None
               /\ (u \notin members \/ gw.required_role_id \notin roles[u])
            THEN "MissingRole"
            ELSE IF u \in gw.participants THEN "AlreadyEntered"
            ELSE "Entered"

\* What becomes of the response the callback sends: it is delivered; or it raises
\* and the fallback of the outer "except Exception" is delivered in its place;
\* or both raise and the user gets no answer.
SendOutcomes == {"sent", "fallback", "lost"}

Delivered(sent, reply, fallback) ==
    IF sent = "sent" THEN reply
    ELSE IF sent = "fallback" THEN Reply(reply.mid, fallback, <<>>)
    ELSE NoReply

\* participants.add(uid)
AddParticipant(ps, u) == ps \cup {u}

\* The whole callback. Nothing after participants.add reads or writes
\* bot.giveaways (the label edit and the response only talk to the platform), so
\* the awaits that follow are folded into the step, with the answer the user
\* ends up with.
JoinClick(u, mid, sent) ==
    /\ u \in members
    /\ Clickable(mid)
    /\ lastReply' = Delivered(sent, Reply(mid, JoinResult(u, mid), <<>>), "FailedToJoin")
    /\ giveaways' = IF JoinResult(u, mid) = "Entered"
                    THEN [giveaways EXCEPT ![mid].participants = AddParticipant(@, u)]
                    ELSE giveaways
    /\ UNCHANGED <<proc, members, roles, msgs, controls, nextId, draws, published>>
    /\ UNCHANGED otherVars

\* ------------------------------------------------ View Participants button
\* The select options view_button builds: one per participant, with the entry
\* count of a participant still in the guild and 1 for one who left. (The
\* options stop at 25 participants, more than the model ever holds.)
RECURSIVE ParticipantEntries(_, _, _, _)
ParticipantEntries(ps, gw_extra, mem, rl) ==
    IF ps = {} THEN <<>>
    ELSE LET u == CHOOSE x \in ps : \A y \in ps : x <= y
             entries == IF u \in mem
                        THEN calculate_entries_for_member(rl[u], gw_extra)
                        ELSE 1
         IN <<<<u, entries>>>> \o ParticipantEntries(ps \ {u}, gw_extra, mem, rl)

ViewResult(mid) ==
    IF mid \notin DOMAIN giveaways THEN "ViewNotFound"
    ELSE IF giveaways[mid].participants = {} THEN "NoParticipants"
    ELSE "Participants"

ViewReply(mid) ==
    [Reply(mid, ViewResult(mid), <<>>) EXCEPT
        !.shown = IF ViewResult(mid) = "Participants"
                  THEN ParticipantEntries(giveaways[mid].participants,
                                          giveaways[mid].extra_roles, members, roles)
                  ELSE <<>>]

\* Faulty variant of ViewClick: the participants are listed by popping them off the
\* stored set.
ViewClickDraining(u, mid, sent) ==
    /\ u \in members
    /\ Clickable(mid)
    /\ lastReply' = Delivered(sent, ViewReply(mid), "CouldNotLoad")
    /\ giveaways' = IF mid \in DOMAIN giveaways
                    THEN [giveaways EXCEPT ![mid].participants = {}]
                    ELSE giveaways
    /\ UNCHANGED <<proc, members, roles, msgs, controls, nextId, draws, published>>
    /\ UNCHANGED otherVars

\* ParticipantsView.view_button: it works on a copy of the participants
\* (set(gw.get("participants"))) and writes nothing back.
ViewClick(u, mid, sent) ==
    /\ u \in members
    /\ Clickable(mid)
    /\ lastReply' = Delivered(sent, ViewReply(mid), "CouldNotLoad")
    /\ UNCHANGED <<giveaways, proc, members, roles, msgs, controls, nextId, draws,
                   published>>
    /\ UNCHANGED otherVars

\* ------------------------------------------------------- /giveaway start
\* A command runs in a free handler slot. Starts stop once MaxGiveaways
\* announcements are posted or about to be.
StartsPending == Cardinality({ q \in CmdProcs : proc[q].pc = "s_post" })

\* Faulty variant of StartResult: the parsed duration is not looked at.
StartResultNoDurationCheck(caller, inGuild, seconds) ==
    IF ~inGuild THEN "UseInServer"
    ELSE IF caller \notin members \/ ~member_has_giveaway_role(roles[caller])
    THEN "ForbiddenStart"
    ELSE "Posted"

\* giveaway_start up to the first platform call: the guild, host-role and
\* duration checks, then the "Giveaway posted" response.
StartResult(caller, inGuild, seconds) ==
    IF ~inGuild THEN "UseInServer"
    ELSE IF caller \notin members \/ ~member_has_giveaway_role(roles[caller])
    THEN "ForbiddenStart"
    ELSE IF seconds = None THEN "InvalidDuration"
    ELSE "Posted"

StartBegin(p, caller, inGuild, seconds) ==
    /\ proc[p].pc = "idle"
    /\ nextId + StartsPending <= MaxGiveaways
    /\ lastReply' = Reply(0, StartResult(caller, inGuild, seconds), <<>>)
    /\ proc' = IF StartResult(caller, inGuild, seconds) = "Posted"
               THEN [proc EXCEPT ![p] = [op |-> "start", pc |-> "s_post", mid |-> 0,
                                         picks |-> <<>>]]
               ELSE proc
    /\ UNCHANGED <<giveaways, members, roles, msgs, controls, nextId, draws, published>>
    /\ UNCHANGED otherVars

\* Faulty variant of StartPost: after a failed send the command goes on to store
\* the giveaway under the id the message would have had.
StartPostNoRollback(p, ok) ==
    /\ proc[p].pc = "s_post"
    /\ IF ok
       THEN /\ msgs' = [msgs EXCEPT ![nextId] =
                          [embed |-> "started", view |-> FALSE]]
            /\ proc' = [proc EXCEPT ![p].pc = "s_attach", ![p].mid = nextId]
            /\ lastReply' = NoReply
       ELSE /\ lastReply' = Reply(0, "PostFailed", <<>>)
            /\ proc' = [proc EXCEPT ![p].pc = "s_store", ![p].mid = nextId]
            /\ UNCHANGED msgs
    /\ nextId' = nextId + 1
    /\ UNCHANGED <<giveaways, members, roles, controls, draws, published>>
    /\ UNCHANGED otherVars

\* gw_msg = await channel.send(embed=embed): the platform hands out a fresh
\* message id, or the send fails and the command ends with a follow-up.
StartPost(p, ok) ==
    /\ proc[p].pc = "s_post"
    /\ IF ok
       THEN /\ msgs' = [msgs EXCEPT ![nextId] =
                          [embed |-> "started", view |-> FALSE]]
            /\ nextId' = nextId + 1
            /\ proc' = [proc EXCEPT ![p].pc = "s_attach", ![p].mid = nextId]
            /\ lastReply' = NoReply
       ELSE /\ lastReply' = Reply(0, "PostFailed", <<>>)
            /\ proc' = [proc EXCEPT ![p] = Idle]
            /\ UNCHANGED <<msgs, nextId>>
    /\ UNCHANGED <<giveaways, members, roles, controls, draws, published>>
    /\ UNCHANGED otherVars

\* await gw_msg.edit(view=view): the buttons appear on the announcement, or the
\* edit fails and the view is sent on a message of its own.
StartAttach(p, ok) ==
    /\ proc[p].pc = "s_attach"
    /\ IF ok
       THEN /\ msgs' = [msgs EXCEPT ![proc[p].mid].view = TRUE]
            /\ proc' = [proc EXCEPT ![p].pc = "s_store"]
       ELSE /\ proc' = [proc EXCEPT ![p].pc = "s_controls"]
            /\ UNCHANGED msgs
    /\ lastReply' = NoReply
    /\ UNCHANGED <<giveaways, members, roles, controls, nextId, draws, published>>
    /\ UNCHANGED otherVars

\* await channel.send("Giveaway controls:", view=view), failure swallowed.
StartControls(p, ok) ==
    /\ proc[p].pc = "s_controls"
    /\ controls' = IF ok THEN controls \cup {proc[p].mid} ELSE controls
    /\ proc' = [proc EXCEPT ![p].pc = "s_store"]
    /\ lastReply' = NoReply
    /\ UNCHANGED <<giveaways, members, roles, msgs, nextId, draws, published>>
    /\ UNCHANGED otherVars

\* The key the giveaway is stored under: the announcement's message id.
StoreKey(p) == proc[p].mid

\* bot.giveaways[gw_msg.id] = {...}; task = asyncio.create_task(_auto_end(...));
\* bot.giveaways[gw_msg.id]["task"] = task. No await in between. cfg is the
\* command's arguments (required_role, extra_entries, winners), which nothing
\* reads before this point.
StartStore(p, cfg) ==
    /\ proc[p].pc = "s_store"
    /\ LET mid == StoreKey(p)
           gw == [required_role_id |-> cfg.required_role_id,
                  extra_roles |-> cfg.extra_roles,
                  winners |-> cfg.winners,
                  participants |-> {},
                  ended |-> FALSE,
                  task |-> mid]
       IN /\ giveaways' = [m \in DOMAIN giveaways \cup {mid} |->
                             IF m = mid THEN gw ELSE giveaways[m]]
          /\ proc' = [proc EXCEPT ![p] = Idle,
                                  ![Timer(mid)] = [op |-> "timer", pc |-> "sleep",
                                                   mid |-> mid, picks |-> <<>>]]
    /\ lastReply' = NoReply
    /\ UNCHANGED <<members, roles, msgs, controls, nextId, draws, published>>
    /\ UNCHANGED otherVars

\* ------------------------------------------------------------ auto-end task
\* _auto_end: the sleep is over; the channel is looked up (bot.get_channel or
\* await bot.fetch_channel, which can raise) and end_giveaway is called.
TimerWake(g, chanOk) ==
    /\ proc[Timer(g)].pc = "sleep"
    /\ proc' = [proc EXCEPT ![Timer(g)].pc = IF chanOk THEN "e_call" ELSE "failed"]
    /\ lastReply' = NoReply
    /\ UNCHANGED <<giveaways, members, roles, msgs, controls, nextId, draws,
                   published>>
    /\ UNCHANGED otherVars

\* --------------------------------------------------------- /giveaway end
EndResult(caller, inGuild, midIn, chanOk) ==
    IF ~inGuild THEN "UseInServer"
    ELSE IF caller \notin members \/ ~member_has_giveaway_role(roles[caller])
    THEN "ForbiddenEnd"
    ELSE IF midIn = BadId THEN "InvalidId"
    ELSE IF midIn \notin DOMAIN giveaways THEN "NotFound"
    ELSE IF ~chanOk THEN "ChanNotFound"
    ELSE "Ending"

\* giveaway_end up to await interaction.response.send_message("Ending giveaway").
EndBegin(p, caller, inGuild, midIn, chanOk) ==
    /\ proc[p].pc = "idle"
    /\ lastReply' = Reply(ReplyMid(EndResult(caller, inGuild, midIn, chanOk), midIn),
                          EndResult(caller, inGuild, midIn, chanOk), <<>>)
    /\ proc' = IF EndResult(caller, inGuild, midIn, chanOk) = "Ending"
               THEN [proc EXCEPT ![p] = [op |-> "end", pc |-> "e_call", mid |-> midIn,
                                         picks |-> <<>>]]
               ELSE proc
    /\ UNCHANGED <<giveaways, members, roles, msgs, controls, nextId, draws, published>>
    /\ UNCHANGED otherVars

\* ------------------------------------------------------------ end_giveaway
\* A handler that returns: a command handler frees its slot, the auto-end task
\* is over.
Finished(p) ==
    IF p \in CmdProcs THEN Idle
    ELSE [op |-> "timer", pc |-> "done", mid |-> proc[p].mid, picks |-> <<>>]

\* A handler that returns at the guard of end_giveaway; for the auto-end task
\* the model keeps apart that it ended without closing anything.
Skipped(p) ==
    IF p \in CmdProcs THEN Idle
    ELSE [op |-> "timer", pc |-> "skipped", mid |-> proc[p].mid, picks |-> <<>>]

\* Faulty variant of EndGuard: the ended flag is not looked at.
EndGuardNoEndedCheck(mid) == mid \notin DOMAIN giveaways

\* if not gw or gw.get("ended"): return
EndGuard(mid) == mid \notin DOMAIN giveaways \/ giveaways[mid].ended

\* end_giveaway is entered, by /giveaway end or by the auto-end task: the guard,
\* then await channel.fetch_message.
EndEnter(p) ==
    /\ proc[p].pc = "e_call"
    /\ proc' = [proc EXCEPT ![p] = IF EndGuard(proc[p].mid) THEN Skipped(p)
                                   ELSE [@ EXCEPT !.pc = "e_fetch"]]
    /\ lastReply' = NoReply
    /\ UNCHANGED <<giveaways, members, roles, msgs, controls, nextId, draws,
                   published>>
    /\ UNCHANGED otherVars

\* Faulty variant of MarkEnded: the flag is flipped instead of set.
MarkEndedFlip(gws, mid) == [gws EXCEPT ![mid].ended = ~@]

\* gw["ended"] = True
MarkEnded(gws, mid) == [gws EXCEPT ![mid].ended = TRUE]

\* Faulty variant of NoEligible: the empty list is not caught.
NoEligibleNever(elig) == FALSE

\* if not eligible_list: the branch that edits the announcement to "No eligible
\* entries" and draws nothing.
NoEligible(elig) == elig = {}

\* Faulty variant of EndFetched: a failed fetch returns without setting the ended flag.
EndFetchedKeepsRunning(p, ok) ==
    /\ proc[p].pc = "e_fetch"
    /\ LET mid == proc[p].mid
           gw == giveaways[mid]
           elig == EndEligible(gw, members, roles)
       IN IF ~ok
          THEN /\ proc' = [proc EXCEPT ![p] = Finished(p)]
               /\ UNCHANGED <<giveaways, draws>>
          ELSE IF NoEligible(elig)
          THEN /\ proc' = [proc EXCEPT ![p].pc = "e_edit_none"]
               /\ UNCHANGED <<giveaways, draws>>
          ELSE /\ \E w \in DrawWinners(BuildPool(elig, gw.extra_roles, roles), gw.winners) :
                     proc' = [proc EXCEPT ![p].pc = "e_edit_win", ![p].picks = w]
               /\ draws' = [draws EXCEPT ![mid] = @ + 1]
               /\ UNCHANGED giveaways
    /\ lastReply' = NoReply
    /\ UNCHANGED <<members, roles, msgs, controls, nextId, published>>
    /\ UNCHANGED otherVars

\* fetch_message returned. On failure the giveaway is marked ended and nothing
\* else happens. Otherwise the participants are snapshotted and filtered, the
\* pool is built and the winners are drawn, all before the next await (msg.edit).
EndFetched(p, ok) ==
    /\ proc[p].pc = "e_fetch"
    /\ LET mid == proc[p].mid
           gw == giveaways[mid]
           elig == EndEligible(gw, members, roles)
       IN IF ~ok
          THEN /\ giveaways' = MarkEnded(giveaways, mid)
               /\ proc' = [proc EXCEPT ![p] = Finished(p)]
               /\ UNCHANGED draws
          ELSE IF NoEligible(elig)
          THEN /\ proc' = [proc EXCEPT ![p].pc = "e_edit_none"]
               /\ UNCHANGED <<giveaways, draws>>
          ELSE /\ \E w \in DrawWinners(BuildPool(elig, gw.extra_roles, roles), gw.winners) :
                     proc' = [proc EXCEPT ![p].pc = "e_edit_win", ![p].picks = w]
               /\ draws' = [draws EXCEPT ![mid] = @ + 1]
               /\ UNCHANGED giveaways
    /\ lastReply' = NoReply
    /\ UNCHANGED <<members, roles, msgs, controls, nextId, published>>
    /\ UNCHANGED otherVars

\* await msg.edit(embed=embed, view=None) on the no-eligible path, failure
\* swallowed; then gw["ended"] = True. The auto-end task is not cancelled here.
EndEditNone(p, ok) ==
    /\ proc[p].pc = "e_edit_none"
    /\ LET mid == proc[p].mid
       IN /\ msgs' = IF ok THEN [msgs EXCEPT ![mid] = [embed |-> "noentries",
                                    view |-> FALSE]]
                     ELSE msgs
          /\ published' = IF ok THEN [published EXCEPT ![mid] = @ + 1] ELSE published
          /\ giveaways' = MarkEnded(giveaways, mid)
          /\ proc' = [proc EXCEPT ![p] = Finished(p)]
    /\ lastReply' = NoReply
    /\ UNCHANGED <<members, roles, controls, nextId, draws>>
    /\ UNCHANGED otherVars

\* t.cancel() on the auto-end task t, called by handler p. A task that is over is
\* untouched; a task suspended at an await gets CancelledError there, which no
\* "except Exception" of end_giveaway catches, and _auto_end returns.
Suspended == {"sleep", "e_call", "e_fetch", "e_edit_none", "e_edit_win"}

CancelTask(pr, t, p) ==
    IF t = p \/ pr[t].pc \notin Suspended THEN pr
    ELSE [pr EXCEPT ![t] = [op |-> "timer", pc |-> "cancelled", mid |-> pr[t].mid,
                            picks |-> <<>>]]

\* Faulty variant of EndEditWin: when no edit lands the close is undone, the giveaway
\* is left running and its task armed.
EndEditWinRollback(p, ok, landed) ==
    /\ proc[p].pc = "e_edit_win"
    /\ LET mid == proc[p].mid
           t == Timer(giveaways[mid].task)
           inflight == t # p /\ proc[t].pc \in {"e_edit_none", "e_edit_win"}
           n == (IF ok THEN 1 ELSE 0) + (IF inflight /\ landed THEN 1 ELSE 0)
           shown == IF ok
                    THEN [embed |-> "winners", view |-> FALSE]
                    ELSE IF inflight /\ landed
                    THEN [embed |-> IF proc[t].pc = "e_edit_win" THEN "winners"
                                    ELSE "noentries",
                          view |-> FALSE]
                    ELSE msgs[mid]
       IN /\ (landed => inflight)
          /\ msgs' = [msgs EXCEPT ![mid] = shown]
          /\ published' = [published EXCEPT ![mid] = @ + n]
          /\ giveaways' = IF n = 0 THEN giveaways ELSE MarkEnded(giveaways, mid)
          /\ proc' = IF n = 0 THEN [proc EXCEPT ![p] = Finished(p)]
                     ELSE [CancelTask(proc, t, p) EXCEPT ![p] = Finished(p)]
    /\ lastReply' = NoReply
    /\ UNCHANGED <<members, roles, controls, nextId, draws>>
    /\ UNCHANGED otherVars

\* await msg.edit(embed=embed, view=None) on the winners path, failure swallowed;
\* then the auto-end task is cancelled and gw["ended"] = True. If the cancelled
\* task was itself waiting for its edit of the announcement, that request may
\* or may not have reached the platform (`landed`); it counts as landing first.
EndEditWin(p, ok, landed) ==
    /\ proc[p].pc = "e_edit_win"
    /\ LET mid == proc[p].mid
           t == Timer(giveaways[mid].task)
           inflight == t # p /\ proc[t].pc \in {"e_edit_none", "e_edit_win"}
           n == (IF ok THEN 1 ELSE 0) + (IF inflight /\ landed THEN 1 ELSE 0)
           shown == IF ok
                    THEN [embed |-> "winners", view |-> FALSE]
                    ELSE IF inflight /\ landed
                    THEN [embed |-> IF proc[t].pc = "e_edit_win" THEN "winners"
                                    ELSE "noentries",
                          view |-> FALSE]
                    ELSE msgs[mid]
       IN /\ (landed => inflight)
          /\ msgs' = [msgs EXCEPT ![mid] = shown]
          /\ published' = [published EXCEPT ![mid] = @ + n]
          /\ giveaways' = MarkEnded(giveaways, mid)
          /\ proc' = [CancelTask(proc, t, p) EXCEPT ![p] = Finished(p)]
    /\ lastReply' = NoReply
    /\ UNCHANGED <<members, roles, controls, nextId, draws>>
    /\ UNCHANGED otherVars

\* ------------------------------------------------------ /giveaway reroll
\* Faulty variant of RerollGuard: the ended flag is not looked at.
RerollGuardNoEndedCheck(mid) == mid \notin DOMAIN giveaways

\* if not gw or not gw.get("ended"): "Giveaway not found or hasn't ended yet."
RerollGuard(mid) == mid \notin DOMAIN giveaways \/ ~giveaways[mid].ended

RerollResult(caller, inGuild, midIn, chanOk) ==
    IF ~inGuild THEN "UseInServer"
    ELSE IF caller \notin members \/ ~member_has_giveaway_role(roles[caller])
    THEN "ForbiddenReroll"
    ELSE IF midIn = BadId THEN "InvalidId"
    ELSE IF RerollGuard(midIn) THEN "NotEnded"
    ELSE IF ~chanOk THEN "ChanNotFound"
    ELSE "Fetching"

\* giveaway_reroll up to await chan.fetch_message(mid).
RerollBegin(p, caller, inGuild, midIn, chanOk) ==
    /\ proc[p].pc = "idle"
    /\ IF RerollResult(caller, inGuild, midIn, chanOk) = "Fetching"
       THEN /\ proc' = [proc EXCEPT ![p] = [op |-> "reroll", pc |-> "r_fetch",
                                            mid |-> midIn, picks |-> <<>>]]
            /\ lastReply' = NoReply
       ELSE /\ lastReply' =
                 Reply(ReplyMid(RerollResult(caller, inGuild, midIn, chanOk), midIn),
                       RerollResult(caller, inGuild, midIn, chanOk), <<>>)
            /\ UNCHANGED proc
    /\ UNCHANGED <<giveaways, members, roles, msgs, controls, nextId, draws, published>>
    /\ UNCHANGED otherVars

\* Faulty variant of RerollFetched: the rerolled winners are taken out of the entrants.
RerollFetchedRemoving(p, ok) ==
    /\ proc[p].pc = "r_fetch"
    /\ LET mid == proc[p].mid
           gw == giveaways[mid]
           elig == RerollEligible(gw, members, roles)
       IN IF ~ok
          THEN /\ lastReply' = Reply(mid, "FetchFailed", <<>>)
               /\ UNCHANGED giveaways
          ELSE IF elig = {}
          THEN /\ lastReply' = Reply(mid, "NoEligibleReroll", <<>>)
               /\ UNCHANGED giveaways
          ELSE \E w \in RerollDrawWinners(BuildPool(elig, gw.extra_roles, roles), gw.winners) :
                  /\ lastReply' = Reply(mid, "NewWinners", w)
                  /\ giveaways' = [giveaways EXCEPT ![mid].participants = @ \ SeqRange(w)]
    /\ proc' = [proc EXCEPT ![p] = Idle]
    /\ UNCHANGED <<members, roles, msgs, controls, nextId, draws, published>>
    /\ UNCHANGED otherVars

\* fetch_message returned: the filter, the pool and the draw as in end_giveaway,
\* then the "New winner(s)" response. Nothing is written to the giveaway.
RerollFetched(p, ok) ==
    /\ proc[p].pc = "r_fetch"
    /\ LET gw == giveaways[proc[p].mid]
           elig == RerollEligible(gw, members, roles)
       IN IF ~ok THEN lastReply' = Reply(proc[p].mid, "FetchFailed", <<>>)
          ELSE IF elig = {}
          THEN lastReply' = Reply(proc[p].mid, "NoEligibleReroll", <<>>)
          ELSE \E w \in RerollDrawWinners(BuildPool(elig, gw.extra_roles, roles), gw.winners) :
                  lastReply' = Reply(proc[p].mid, "NewWinners", w)
    /\ proc' = [proc EXCEPT ![p] = Idle]
    /\ UNCHANGED <<giveaways, members, roles, msgs, controls, nextId, draws, published>>
    /\ UNCHANGED otherVars

\* ----------------------------------------------------------- specification
StartCfgs ==
    [required_role_id : RequiredInputs, extra_roles : ExtraInputs,
     winners : 1 .. MaxWinners]

\* Every step but a /giveaway end request.
NextNoEnd ==
    \/ \E u \in Users : MemberLeave(u)
    \/ \E u \in Users : RoleRemoved(u)
    \/ \E u \in Users, mid \in Mids, sent \in SendOutcomes : JoinClick(u, mid, sent)
    \/ \E u \in Users, mid \in Mids, sent \in SendOutcomes : ViewClick(u, mid, sent)
    \/ \E p \in CmdProcs, i \in StartInputs :
          StartBegin(p, i.caller, i.inGuild, i.seconds)
    \/ \E p \in CmdProcs, ok \in BOOLEAN : StartPost(p, ok)
    \/ \E p \in CmdProcs, ok \in BOOLEAN : StartAttach(p, ok)
    \/ \E p \in CmdProcs, ok \in BOOLEAN : StartControls(p, ok)
    \/ \E p \in CmdProcs, cfg \in StartCfgs : StartStore(p, cfg)
    \/ \E g \in Mids, chanOk \in BOOLEAN : TimerWake(g, chanOk)
    \/ \E p \in Procs : EndEnter(p)
    \/ \E p \in Procs, ok \in BOOLEAN : EndFetched(p, ok)
    \/ \E p \in Procs, ok \in BOOLEAN : EndEditNone(p, ok)
    \/ \E p \in Procs, ok \in BOOLEAN, landed \in BOOLEAN : EndEditWin(p, ok, landed)
    \/ \E p \in CmdProcs, i \in CmdInputs :
          RerollBegin(p, i.caller, i.inGuild, i.midIn, i.chanOk)
    \/ \E p \in CmdProcs, ok \in BOOLEAN : RerollFetched(p, ok)

Next ==
    \/ NextNoEnd
    \/ \E p \in CmdProcs, i \in CmdInputs :
          EndBegin(p, i.caller, i.inGuild, i.midIn, i.chanOk)

Spec == Init /\ [][Next]_vars

\* ---------------------------------------------- the auto-end task is fair
\* The steps of the auto-end task of giveaway g: asyncio.sleep runs out and
\* every platform call the task awaits returns, with a result or an exception.
TimerStep(g) ==
    \/ \E chanOk \in BOOLEAN : TimerWake(g, chanOk)
    \/ EndEnter(Timer(g))
    \/ \E ok \in BOOLEAN : EndFetched(Timer(g), ok)
    \/ \E ok \in BOOLEAN : EndEditNone(Timer(g), ok)
    \/ \E ok \in BOOLEAN, landed \in BOOLEAN : EndEditWin(Timer(g), ok, landed)

\* The bot with no /giveaway end request, where only the auto-end task can close.
LiveSpec ==
    Init /\ [][NextNoEnd]_vars /\ \A g \in Mids : WF_vars(TimerStep(g))

\* ------------------------------------------- the entry count on its inputs
\* calculate_entries_for_member tried on every role set and on the tables
\* parse_extra_entries_string makes of a few extra_entries arguments: one
\* running giveaway that every user has joined, and View Participants, which
\* shows each participant's entry count.
RoleInputs == SUBSET {2, 3, MemberRole}
PartsInputs ==
    { <<>>, <<<<2, 1>>>>, <<<<3, 0>>>>, <<<<MemberRole, 2>>, <<2, 5>>>>,
      <<<<2, 1>>, <<2, 4>>>>, <<Unparsable, <<MemberRole, 1>>>> }

EntriesInit ==
    /\ OtherInit
    /\ roles \in [Users -> RoleInputs]
    /\ members \in SUBSET Users
    /\ \E parts \in PartsInputs :
          giveaways = [m \in {1} |->
                         [required_role_id |-> None,
                          extra_roles |-> parse_extra_entries_string(parts),
                          winners |-> 1,
                          participants |-> Users,
                          ended |-> FALSE,
                          task |-> 1]]
    /\ proc = [p \in Procs |-> IF p = Timer(1)
                               THEN [op |-> "timer", pc |-> "sleep", mid |-> 1,
                                     picks |-> <<>>]
                               ELSE Idle]
    /\ msgs = [m \in Mids |-> IF m = 1 THEN [embed |-> "started", view |-> TRUE]
                              ELSE NoMsg]
    /\ controls = {}
    /\ nextId = 2
    /\ draws = [m \in Mids |-> 0]
    /\ published = [m \in Mids |-> 0]
    /\ lastReply = NoReply

EntriesNext ==
    \E u \in Users, mid \in Mids, sent \in SendOutcomes : ViewClick(u, mid, sent)

EntriesSpec == EntriesInit /\ [][EntriesNext]_vars

\* ------------------------------------------------------- the counting game
\* on_message for a message with a number in a counting channel. Every await of
\* the handler is where one step ends and the next begins; the statements that
\* handlers hand to bot.db run one at a time, in the order the steps take them.

\* Faulty variant of LockFree: a new lock is made for every message.
LockFreeAlways(ch) == TRUE

\* asyncio.Lock.locked() of the channel's lock (a lock not yet created is free)
LockFree(ch) == count_locks[ch] = Unlocked

\* row[0] if row else 0
StoredLast(ch) == IF counting[ch] = Absent THEN 0 ELSE counting[ch]

\* UPDATE counting SET last_number = ? WHERE channel_id = ?
UpdateRow(table, ch, value) ==
    IF table[ch] = Absent THEN table ELSE [table EXCEPT ![ch] = value]

\* _clear_pending_prompt_if_outdated: the prompt is dropped when it is older
\* than five minutes, which `outdated` says.
ClearOutdated(ch, outdated) ==
    IF outdated THEN [pending_prompts EXCEPT ![ch] = None] ELSE pending_prompts

\* async with lock: entered; the outdated prompt is cleared and BEGIN IMMEDIATE
\* is handed to the connection.
EnterLocked(h, ch, n, outdated) ==
    /\ (outdated => pending_prompts[ch] # None)
    /\ count_locks' = [count_locks EXCEPT ![ch] = h]
    /\ pending_prompts' = ClearOutdated(ch, outdated)
    /\ handlers' = [handlers EXCEPT ![h] = [pc |-> "begin", ch |-> ch, n |-> n]]

\* A number message arrives; the handler takes the channel's lock, or waits for it.
Arrive(h, ch, n, outdated) ==
    /\ handlers[h].pc = "idle"
    /\ IF LockFree(ch)
       THEN EnterLocked(h, ch, n, outdated)
       ELSE /\ ~outdated
            /\ handlers' = [handlers EXCEPT ![h] = [pc |-> "wait_lock", ch |-> ch,
                                                    n |-> n]]
            /\ UNCHANGED <<count_locks, pending_prompts>>
    /\ counted' = NoCount
    /\ UNCHANGED <<counting, committed, in_transaction, history, reporter>>
    /\ UNCHANGED <<giveawayVars, pureVars>>

\* The lock was released and a waiting handler gets it.
AcquireLock(h, outdated) ==
    /\ handlers[h].pc = "wait_lock"
    /\ LockFree(handlers[h].ch)
    /\ EnterLocked(h, handlers[h].ch, handlers[h].n, outdated)
    /\ counted' = NoCount
    /\ UNCHANGED <<counting, committed, in_transaction, history, reporter>>
    /\ UNCHANGED <<giveawayVars, pureVars>>

\* await bot.db.execute("BEGIN IMMEDIATE"): with a transaction open on the
\* connection the statement raises and the handler is in its except branch.
BeginImmediate(h) ==
    /\ handlers[h].pc = "begin"
    /\ handlers' = [handlers EXCEPT ![h].pc = IF in_transaction THEN "rollback"
                                              ELSE "insert"]
    /\ in_transaction' = TRUE
    /\ counted' = NoCount
    /\ UNCHANGED <<count_locks, pending_prompts, counting, committed, history, reporter>>
    /\ UNCHANGED <<giveawayVars, pureVars>>

\* INSERT OR IGNORE INTO counting (channel_id, last_number) VALUES (?, 0); with
\* no transaction open the connection begins one first.
InsertOrIgnore(h) ==
    /\ handlers[h].pc = "insert"
    /\ counting' = IF counting[handlers[h].ch] = Absent
                   THEN [counting EXCEPT ![handlers[h].ch] = 0] ELSE counting
    /\ in_transaction' = TRUE
    /\ handlers' = [handlers EXCEPT ![h].pc = "select"]
    /\ counted' = NoCount
    /\ UNCHANGED <<count_locks, pending_prompts, committed, history, reporter>>
    /\ UNCHANGED <<giveawayVars, pureVars>>

\* Faulty variant of Accepts: any number above the count is taken.
AcceptsAnyHigher(n, last, pend) == n > last

\* Case 1, the exact next number; case 2, last + 2 with the prompt for last + 1
\* on record in pending_prompts.
Accepts(n, last, pend) == n = last + 1 \/ (n = last + 2 /\ pend = last + 1)

\* SELECT last_number, then the two cases; with last + 2 and no prompt on
\* record the handler goes on to scan the channel history (where last is
\* number - 2, which the handler's record need not repeat).
SelectLast(h) ==
    /\ handlers[h].pc = "select"
    /\ LET ch == handlers[h].ch
           n == handlers[h].n
           last == StoredLast(ch)
       IN handlers' = [handlers EXCEPT
                         ![h].pc = IF Accepts(n, last, pending_prompts[ch]) THEN "update"
                                   ELSE IF n = last + 2 THEN "scan"
                                   ELSE "react_x"]
    /\ counted' = NoCount
    /\ UNCHANGED <<count_locks, pending_prompts, counting, committed, in_transaction,
                   history, reporter>>
    /\ UNCHANGED <<giveawayVars, pureVars>>

\* async for hist_msg in message.channel.history(limit=10): accepted when a
\* message of the bot among them starts with last + 1, which is number - 1; a
\* scan that raises accepts nothing.
ScanHistory(h, ok) ==
    /\ handlers[h].pc = "scan"
    /\ handlers' = [handlers EXCEPT
                      ![h].pc = IF ok /\ handlers[h].n - 1 \in history[handlers[h].ch]
                                THEN "update" ELSE "react_x"]
    /\ counted' = NoCount
    /\ UNCHANGED <<count_locks, pending_prompts, counting, committed, in_transaction,
                   history, reporter>>
    /\ UNCHANGED <<giveawayVars, pureVars>>

\* if accepted: UPDATE counting SET last_number = number
UpdateAccepted(h) ==
    /\ handlers[h].pc = "update"
    /\ counting' = UpdateRow(counting, handlers[h].ch, handlers[h].n)
    /\ in_transaction' = TRUE
    /\ handlers' = [handlers EXCEPT ![h].pc = "commit"]
    /\ counted' = NoCount
    /\ UNCHANGED <<count_locks, pending_prompts, committed, history, reporter>>
    /\ UNCHANGED <<giveawayVars, pureVars>>

\* await bot.db.commit(), on either path: whatever the connection holds
\* uncommitted is committed.
Commit(h) ==
    /\ handlers[h].pc \in {"commit", "commit_x"}
    /\ committed' = counting
    /\ in_transaction' = FALSE
    /\ handlers' = [handlers EXCEPT ![h].pc = IF handlers[h].pc = "commit"
                                              THEN "react_ok" ELSE "fumble_msg"]
    /\ counted' = NoCount
    /\ UNCHANGED <<count_locks, pending_prompts, counting, history, reporter>>
    /\ UNCHANGED <<giveawayVars, pureVars>>

\* await message.add_reaction("✅") returned or raised; the pending prompt is
\* cleared if number >= prompt_num; then await message.channel.send(str(next_num)).
ReactAccepted(h) ==
    /\ handlers[h].pc = "react_ok"
    /\ LET ch == handlers[h].ch
       IN pending_prompts' =
            IF pending_prompts[ch] # None /\ handlers[h].n >= pending_prompts[ch]
            THEN [pending_prompts EXCEPT ![ch] = None] ELSE pending_prompts
    /\ handlers' = [handlers EXCEPT ![h].pc = "prompt"]
    /\ counted' = NoCount
    /\ UNCHANGED <<count_locks, counting, committed, in_transaction, history, reporter>>
    /\ UNCHANGED <<giveawayVars, pureVars>>

\* The prompt for number + 1 was sent, reacted to and recorded with
\* _set_pending_prompt, or the send raised and nothing is recorded; the handler
\* leaves the lock.
PromptSent(h, ok) ==
    /\ handlers[h].pc = "prompt"
    /\ LET ch == handlers[h].ch
           next_num == handlers[h].n + 1
       IN /\ history' = IF ok THEN [history EXCEPT ![ch] = @ \cup {next_num}] ELSE history
          /\ pending_prompts' = IF ok THEN [pending_prompts EXCEPT ![ch] = next_num]
                                ELSE pending_prompts
          /\ count_locks' = [count_locks EXCEPT ![ch] = Unlocked]
          /\ counted' = [ch |-> ch, n |-> handlers[h].n, res |-> "accepted"]
    /\ handlers' = [handlers EXCEPT ![h] = IdleHandler]
    /\ UNCHANGED <<counting, committed, in_transaction, reporter>>
    /\ UNCHANGED <<giveawayVars, pureVars>>

\* else: await message.add_reaction("❌") returned or raised.
ReactFumble(h) ==
    /\ handlers[h].pc = "react_x"
    /\ handlers' = [handlers EXCEPT ![h].pc = "update_x"]
    /\ counted' = NoCount
    /\ UNCHANGED <<count_locks, pending_prompts, counting, committed, in_transaction,
                   history, reporter>>
    /\ UNCHANGED <<giveawayVars, pureVars>>

\* UPDATE counting SET last_number = 0
UpdateFumble(h) ==
    /\ handlers[h].pc = "update_x"
    /\ counting' = UpdateRow(counting, handlers[h].ch, 0)
    /\ in_transaction' = TRUE
    /\ handlers' = [handlers EXCEPT ![h].pc = "commit_x"]
    /\ counted' = NoCount
    /\ UNCHANGED <<count_locks, pending_prompts, committed, history, reporter>>
    /\ UNCHANGED <<giveawayVars, pureVars>>

\* The "fumbled the count" message and the failure role, failures swallowed;
\* the handler leaves the lock. The message starts with the author's mention,
\* whose id is the first number in it, so it is no prompt for the history scan.
FumbleDone(h) ==
    /\ handlers[h].pc = "fumble_msg"
    /\ count_locks' = [count_locks EXCEPT ![handlers[h].ch] = Unlocked]
    /\ counted' = [ch |-> handlers[h].ch, n |-> handlers[h].n, res |-> "fumbled"]
    /\ handlers' = [handlers EXCEPT ![h] = IdleHandler]
    /\ UNCHANGED <<pending_prompts, counting, committed, in_transaction, history, reporter>>
    /\ UNCHANGED <<giveawayVars, pureVars>>

\* except Exception: await bot.db.rollback(), which undoes whatever the
\* connection holds uncommitted; process_commands; return, leaving the lock.
Rollback(h) ==
    /\ handlers[h].pc = "rollback"
    /\ counting' = committed
    /\ in_transaction' = FALSE
    /\ count_locks' = [count_locks EXCEPT ![handlers[h].ch] = Unlocked]
    /\ counted' = [ch |-> handlers[h].ch, n |-> handlers[h].n, res |-> "failed"]
    /\ handlers' = [handlers EXCEPT ![h] = IdleHandler]
    /\ UNCHANGED <<pending_prompts, committed, history, reporter>>
    /\ UNCHANGED <<giveawayVars, pureVars>>

\* /report (and /suggest, which is the same code on its own table): the INSERT
\* on bot.db, which begins a transaction if none is open.
ReportInsert ==
    /\ reporter = "idle"
    /\ reporter' = "commit"
    /\ in_transaction' = TRUE
    /\ counted' = NoCount
    /\ UNCHANGED <<count_locks, pending_prompts, counting, committed, history, handlers>>
    /\ UNCHANGED <<giveawayVars, pureVars>>

\* await bot.db.commit() of /report
ReportCommit ==
    /\ reporter = "commit"
    /\ reporter' = "idle"
    /\ committed' = counting
    /\ in_transaction' = FALSE
    /\ counted' = NoCount
    /\ UNCHANGED <<count_locks, pending_prompts, counting, history, handlers>>
    /\ UNCHANGED <<giveawayVars, pureVars>>

\* Newer messages push a message of the bot out of the last ten of the channel.
ScrollHistory(ch, k) ==
    /\ k \in history[ch]
    /\ history' = [history EXCEPT ![ch] = @ \ {k}]
    /\ counted' = NoCount
    /\ UNCHANGED <<count_locks, pending_prompts, counting, committed, in_transaction,
                   handlers, reporter>>
    /\ UNCHANGED <<giveawayVars, pureVars>>

CountInitAll == GiveawayInit /\ PureInit /\ CountInit

\* Every step of a handler after the arrival of its message but the except
\* branch, and the channel history moving on.
HandlerSteps ==
    \/ \E h \in Handlers, outdated \in BOOLEAN : AcquireLock(h, outdated)
    \/ \E h \in Handlers : BeginImmediate(h)
    \/ \E h \in Handlers : InsertOrIgnore(h)
    \/ \E h \in Handlers : SelectLast(h)
    \/ \E h \in Handlers, ok \in BOOLEAN : ScanHistory(h, ok)
    \/ \E h \in Handlers : UpdateAccepted(h)
    \/ \E h \in Handlers : Commit(h)
    \/ \E h \in Handlers : ReactAccepted(h)
    \/ \E h \in Handlers, ok \in BOOLEAN : PromptSent(h, ok)
    \/ \E h \in Handlers : ReactFumble(h)
    \/ \E h \in Handlers : UpdateFumble(h)
    \/ \E h \in Handlers : FumbleDone(h)
    \/ \E ch \in COUNTING_CHANNEL_IDS, k \in 1 .. MaxNumber + 1 : ScrollHistory(ch, k)

\* One counting channel on its own: number messages in the first channel only
\* and no other user of the connection.
ChannelNext ==
    \/ \E h \in Handlers, n \in Numbers, outdated \in BOOLEAN : Arrive(h, 1, n, outdated)
    \/ HandlerSteps

ChannelSpec == CountInitAll /\ [][ChannelNext]_vars

\* Both counting channels, and /report, on the one connection; the first
\* channel gets the numbers 1 .. MaxCrossNumber, the second the number 1.
MaxCrossNumber == 2
CountNext ==
    \/ \E h \in Handlers, n \in 1 .. MaxCrossNumber, outdated \in BOOLEAN :
          Arrive(h, 1, n, outdated)
    \/ \E h \in Handlers, outdated \in BOOLEAN : Arrive(h, 2, 1, outdated)
    \/ HandlerSteps
    \/ \E h \in Handlers : Rollback(h)
    \/ ReportInsert
    \/ ReportCommit

CountSpec == CountInitAll /\ [][CountNext]_vars

\* --------------------------------------- the duration parser on its inputs
\* parse_duration_to_seconds tried on every string of up to MaxDurationLen
\* characters of DurationChars, on the strings the help texts give as examples
\* and their like, and on strings put together from components.
MaxDurationLen == 4
DurationChars == {"0", "1", "2", "d", "h", "m", "s", " ", "x"}
DurationExamples ==
    { <<"1", "h", "3", "0", "m">>, <<"9", "0", "s">>, <<"3", "6", "0", "0">>,
      <<"2", "d">>, <<"0", "s">>, <<"-", "5">>, <<"3", "0", "x">>, <<"m", "5">>,
      <<"1", "H", "3", "0", "M">>, <<" ", "1", "h", " ", "3", "0", " ", "m", " ">>,
      <<"1", "d", "1", "h", "1", "m", "1", "s">>, <<"0", "d", "0", "h">>,
      <<SuperTwo>>, <<"1", SuperTwo>>, <<SuperTwo, "h">> }

\* A number as it is written and what it is worth; <<>> for a component left out.
NumInputs ==
    { <<<<>>, 0>>, <<<<"1">>, 1>>, <<<<"2">>, 2>>, <<<<"3", "0">>, 30>>,
      <<<<"9", "0">>, 90>> }
CompInputs ==
    { c \in [1 .. 4 -> NumInputs] : \E u \in 1 .. 4 : c[u][1] # <<>> }

RECURSIVE Compose(_, _)
Compose(c, u) ==
    IF u = 0 THEN <<>>
    ELSE Compose(c, u - 1)
         \o (IF c[u][1] = <<>> THEN <<>> ELSE c[u][1] \o <<UnitLetters[u]>>)

\* The strings made of components, and the bare integers, each with the number
\* of seconds it stands for.
ComposedTable ==
    { <<Compose(c, 4),
        c[1][2] * 86400 + c[2][2] * 3600 + c[3][2] * 60 + c[4][2]>> : c \in CompInputs }
    \cup { <<n[1], n[2]>> : n \in NumInputs \ { <<<<>>, 0>> } }
    \cup { << <<"3", "6", "0", "0">>, 3600 >> }

DurationInputs ==
    UNION { [1 .. k -> DurationChars] : k \in 0 .. MaxDurationLen }
    \cup DurationExamples
    \cup { t[1] : t \in ComposedTable }

DurationInit ==
    /\ GiveawayInit
    /\ CountInit
    /\ durationArg \in DurationInputs
    /\ secondsRet = Unset

\* seconds = parse_duration_to_seconds(duration)
ParseDuration ==
    /\ secondsRet = Unset
    /\ secondsRet' = parse_duration_to_seconds(durationArg)
    /\ UNCHANGED <<durationArg, giveawayVars, countVars>>

DurationSpec == DurationInit /\ [][ParseDuration]_vars

\* ------------------------------------------------------------------ claims
EndedNow(mid) == mid \in DOMAIN giveaways /\ giveaways[mid].ended

\* Who may win giveaway mid right now, stated from the data model: an entrant
\* who is in the guild and holds the required role when one is configured.
EligibleNow(mid) ==
    { u \in Users :
        /\ u \in giveaways[mid].participants
        /\ u \in members
        /\ (giveaways[mid].required_role_id = None
              \/ giveaways[mid].required_role_id \in roles[u]) }

NoRepeat(w) == \A i, j \in DOMAIN w : i # j => w[i] # w[j]

\* C1: whatever the interleaving of the timer-triggered close and the end_early
\* requests, a giveaway's winners are drawn at most once and at most one
\* resolution is published for it.
C1_ResolvedAtMostOnce ==
    \A g \in Mids : draws[g] <= 1 /\ published[g] <= 1

\* C2: a close that runs to completion leaves the giveaway ended, and a close or
\* end_early call that reaches end_giveaway on an ended giveaway returns at once:
\* it draws nothing, edits nothing and leaves the stored state as it was.
C2_LaterCloseIsNoop ==
    [][\A p \in Procs :
          /\ (/\ proc[p].pc \in {"e_fetch", "e_edit_none", "e_edit_win"}
              /\ proc'[p].pc \in {"idle", "done"})
             => giveaways'[proc[p].mid].ended
          /\ (/\ proc[p].pc = "e_call"
              /\ EndedNow(proc[p].mid)
              /\ proc'[p] # proc[p])
             => /\ proc'[p].pc \in {"idle", "skipped", "cancelled"}
                /\ proc'[p].pc # "cancelled"
                     => /\ UNCHANGED <<giveaways, msgs, controls, draws, published>>
                        /\ lastReply' = NoReply]_vars

C2_Witness ==
    \E g \in DOMAIN giveaways :
        /\ proc[Timer(g)].pc = "skipped"
        /\ giveaways[g].ended
        /\ msgs[g].embed = "noentries"

C4_NoJoinAfterEnded ==
    lastReply.text = "Entered" => ~giveaways[lastReply.mid].ended

\* C5: the winners drawn by close are pairwise distinct, and there are
\* min(winners requested, number of distinct eligible members) of them.
C5_DistinctWinners ==
    [][\A p \in Procs :
          (proc[p].pc = "e_fetch" /\ proc'[p].pc = "e_edit_win")
          => LET w == proc'[p].picks
                 mid == proc[p].mid
             IN /\ NoRepeat(w)
                /\ Len(w) = Min(giveaways[mid].winners, Cardinality(EligibleNow(mid)))]_vars

C5_Witness ==
    \E p \in Procs :
        /\ proc[p].pc = "e_edit_win"
        /\ Len(proc[p].picks) = 2
        /\ \E i \in DOMAIN proc[p].picks :
              /\ proc[p].picks[i] \in members
              /\ calculate_entries_for_member(roles[proc[p].picks[i]],
                     giveaways[proc[p].mid].extra_roles) > 1

\* C6: every winner close draws is, when it is drawn, an entrant of the
\* giveaway, a guild member and a holder of the required role if there is one;
\* an entrant who is not holds no ticket in the pool, whatever bonus roles.
C6_WinnersEligible ==
    [][\A p \in Procs :
          (proc[p].pc = "e_fetch" /\ proc'[p].pc = "e_edit_win")
          => LET w == proc'[p].picks
                 gw == giveaways[proc[p].mid]
                 pool == BuildPool(EndEligible(gw, members, roles), gw.extra_roles, roles)
             IN /\ \A i \in DOMAIN w :
                      /\ w[i] \in gw.participants
                      /\ w[i] \in members
                      /\ gw.required_role_id # None => gw.required_role_id \in roles[w[i]]
                /\ \A u \in gw.participants \ EligibleNow(proc[p].mid) :
                      u \notin SeqRange(pool)]_vars

C6_Witness ==
    \E p \in Procs :
        /\ proc[p].pc = "e_edit_win"
        /\ LET gw == giveaways[proc[p].mid]
           IN /\ gw.required_role_id # None
              /\ gw.winners = 2
              /\ Len(proc[p].picks) = 1
              /\ \E u \in gw.participants \ SeqRange(proc[p].picks) :
                    /\ u \in members
                    /\ gw.required_role_id \notin roles[u]
                    /\ roles[u] \cap DOMAIN BONUS_ROLES # {}

\* C7: when close finds no eligible entrant it takes the "no eligible entries"
\* path: no winner is drawn, the only edit it makes shows that outcome, and
\* when it returns the giveaway is ended.
C7_NoEligibleNoDraw ==
    [][\A p \in Procs :
          /\ (/\ proc[p].pc = "e_fetch"
              /\ EligibleNow(proc[p].mid) = {}
              /\ proc'[p] # proc[p])
             => /\ proc'[p].pc \in {"e_edit_none", "idle", "done", "cancelled"}
                /\ draws' = draws
          /\ (proc[p].pc = "e_edit_none" /\ proc'[p].pc \in {"idle", "done"})
             => /\ giveaways'[proc[p].mid].ended
                /\ draws' = draws
                /\ msgs' = msgs \/ msgs'[proc[p].mid].embed = "noentries"]_vars

C7_Witness ==
    \E g \in DOMAIN giveaways :
        /\ giveaways[g].ended
        /\ msgs[g].embed = "noentries"
        /\ draws[g] = 0
        /\ giveaways[g].participants = {}

\* C8: reroll on a giveaway that is not ended answers "not ended": a host's
\* request is refused, no reroll gets as far as fetching the message, and no
\* reroll outcome is ever sent for a giveaway that is not ended.
C8_RerollNeedsEnded ==
    /\ \A p \in CmdProcs : proc[p].pc = "r_fetch" => EndedNow(proc[p].mid)
    /\ lastReply.text \in {"NewWinners", "NoEligibleReroll", "FetchFailed"}
          => EndedNow(lastReply.mid)
    /\ \A g \in DOMAIN giveaways, c \in members :
          (~giveaways[g].ended /\ member_has_giveaway_role(roles[c]))
          => \A chanOk \in BOOLEAN : RerollResult(c, TRUE, g, chanOk) = "NotEnded"

C8_Witness ==
    /\ lastReply.text = "NotEnded"
    /\ lastReply.mid \in DOMAIN giveaways
    /\ ~giveaways[lastReply.mid].ended
    /\ giveaways[lastReply.mid].participants # {}

\* C9: no step of reroll, failing or not, changes a stored giveaway or an
\* auto-end task. (The out-of-guild, bad-id and missing-channel answers are
\* worded alike by reroll and end; neither changes anything there.)
RerollTexts ==
    {"UseInServer", "ForbiddenReroll", "InvalidId", "NotEnded", "ChanNotFound",
     "FetchFailed", "NoEligibleReroll", "NewWinners"}

C9_RerollChangesNothing ==
    [][(\/ lastReply'.text \in RerollTexts
        \/ \E p \in CmdProcs : proc[p].pc = "idle" /\ proc'[p].pc = "r_fetch")
       => /\ giveaways' = giveaways
          /\ \A g \in Mids : proc'[Timer(g)] = proc[Timer(g)]]_vars

C9_Witness ==
    /\ lastReply.text = "NewWinners"
    /\ EndedNow(lastReply.mid)
    /\ Len(lastReply.picks) = 2

\* C10: the winners a reroll announces are eligible when the reroll runs: each
\* is an entrant, in the guild and a holder of the required role at that moment.
C10_RerollEligibleNow ==
    lastReply.text = "NewWinners"
    => \A i \in DOMAIN lastReply.picks :
          lastReply.picks[i] \in EligibleNow(lastReply.mid)

C10_Witness ==
    /\ lastReply.text = "NewWinners"
    /\ msgs[lastReply.mid].embed = "winners"
    /\ giveaways[lastReply.mid].winners = 2
    /\ Len(lastReply.picks) = 1
    /\ \E u \in giveaways[lastReply.mid].participants : u \notin members
    /\ \E u \in giveaways[lastReply.mid].participants :
          /\ u \in members
          /\ giveaways[lastReply.mid].required_role_id # None
          /\ giveaways[lastReply.mid].required_role_id \in roles[u]

\* What a rejected request must leave alone: the table, every handler and
\* auto-end task, the messages and the draw and publication counts.
NothingChanges == UNCHANGED <<giveaways, proc, msgs, controls, nextId, draws, published>>

\* C11: start, end and reroll answer a caller without the host role with their
\* "you need the giveaway host role" message, and the step that sends it
\* creates no giveaway, arms or cancels no task, ends nothing and draws nothing.
C11_ForbiddenChangesNothing ==
    [][/\ \A c \in Users :
             GIVEAWAY_HOST_ROLE_ID \notin roles[c]
             => /\ \A sec \in SecondsInputs :
                      StartResult(c, TRUE, sec) = "ForbiddenStart"
                /\ \A m \in MidInputs, chanOk \in BOOLEAN :
                      /\ EndResult(c, TRUE, m, chanOk) = "ForbiddenEnd"
                      /\ RerollResult(c, TRUE, m, chanOk) = "ForbiddenReroll"
       /\ lastReply'.text \in {"ForbiddenStart", "ForbiddenEnd", "ForbiddenReroll"}
             => NothingChanges]_vars

C11_Witness ==
    /\ lastReply.text = "ForbiddenEnd"
    /\ \E g \in DOMAIN giveaways :
          /\ ~giveaways[g].ended
          /\ giveaways[g].participants # {}
          /\ proc[Timer(g)].pc = "sleep"

\* C12: a giveaway is recorded only for an announcement that was posted, and
\* the step in which channel.send fails ends the command with nothing recorded:
\* the table and the auto-end tasks are as before and no message id is used up.
C12_PostFailureRecordsNothing ==
    [][/\ \A g \in DOMAIN giveaways : msgs[g].embed # "none"
       /\ lastReply'.text = "PostFailed"
             => /\ giveaways' = giveaways
                /\ \A g \in Mids : proc'[Timer(g)] = proc[Timer(g)]
                /\ \A p \in CmdProcs : proc'[p] # proc[p] => proc'[p] = Idle
                /\ UNCHANGED <<msgs, controls, nextId, draws, published>>]_vars

C12_Witness ==
    /\ lastReply.text = "PostFailed"
    /\ DOMAIN giveaways = {}
    /\ \A p \in Procs : proc[p] = Idle
    /\ \A m \in Mids : msgs[m] = NoMsg

\* C13: a host whose duration does not parse is answered "invalid duration", a
\* host naming an unknown message id is answered "not found" by end and by
\* reroll, and the step that sends any of these answers changes nothing.
C13_RejectedBeforeMutation ==
    [][/\ \A c \in members :
             GIVEAWAY_HOST_ROLE_ID \in roles[c]
             => /\ StartResult(c, TRUE, None) = "InvalidDuration"
                /\ \A m \in MidInputs \ (DOMAIN giveaways \cup {BadId}),
                      chanOk \in BOOLEAN :
                      /\ EndResult(c, TRUE, m, chanOk) = "NotFound"
                      /\ RerollResult(c, TRUE, m, chanOk) = "NotEnded"
       /\ (\/ lastReply'.text \in {"InvalidDuration", "NotFound"}
           \/ lastReply'.text = "NotEnded" /\ lastReply'.mid \notin DOMAIN giveaways)
             => NothingChanges]_vars

C13_Witness ==
    /\ lastReply.text = "NotFound"
    /\ lastReply.mid \notin DOMAIN giveaways
    /\ \E g \in DOMAIN giveaways :
          /\ ~giveaways[g].ended
          /\ giveaways[g].participants # {}
          /\ proc[Timer(g)].pc = "sleep"

\* C14: once a giveaway is ended its auto-end task is no longer pending: it has
\* been cancelled, or it is over.
C14_CloseCancelsTimer ==
    \A g \in DOMAIN giveaways :
        giveaways[g].ended => proc[Timer(g)].pc \notin Suspended

\* C15: a close whose edit of the announcement does not land still ends the
\* giveaway and leaves the draw count and the entrants as they are; and a close
\* that comes to the guard of an ended giveaway gets no further and draws nothing.
C15_PublishFailureKeepsResult ==
    [][\A p \in Procs :
          /\ (/\ proc[p].pc \in {"e_edit_win", "e_edit_none"}
              /\ proc'[p].pc \in {"idle", "done"}
              /\ published' = published)
             => /\ giveaways'[proc[p].mid].ended
                /\ draws' = draws
                /\ giveaways'[proc[p].mid].participants
                     = giveaways[proc[p].mid].participants
          /\ (/\ proc[p].pc = "e_call"
              /\ EndedNow(proc[p].mid)
              /\ proc'[p] # proc[p])
             => /\ proc'[p].pc # "e_fetch"
                /\ draws' = draws]_vars

C15_Witness ==
    \E g \in DOMAIN giveaways :
        /\ giveaways[g].ended
        /\ draws[g] = 1
        /\ published[g] = 0
        /\ msgs[g].embed = "started"
        /\ \E p \in Procs : proc[p].pc = "e_call" /\ proc[p].mid = g

\* C16: with no /giveaway end request and an auto-end task whose awaits all
\* return, every giveaway in the table is eventually ended.
C16_EveryGiveawayEnds ==
    \A g \in Mids : (g \in DOMAIN giveaways) ~> EndedNow(g)

\* C17: no step takes a user out of a giveaway's participants, and no giveaway
\* leaves the table.
C17_EntrantsAppendOnly ==
    [][\A g \in DOMAIN giveaways :
          /\ g \in DOMAIN giveaways'
          /\ giveaways[g].participants \subseteq giveaways'[g].participants]_vars

C17_Witness ==
    /\ lastReply.text = "Participants"
    /\ EndedNow(lastReply.mid)
    /\ draws[lastReply.mid] >= 1
    /\ giveaways[lastReply.mid].participants = Users
    /\ Len(lastReply.shown) = MaxUsers

\* C18: the participants of a giveaway change only in a step that answers
\* "entered" for that giveaway, and then by exactly one new user; a step that
\* answers "already entered" or "missing role" changes no giveaway.
C18_JoinChangesOnlyWhenAccepted ==
    [][/\ \A g \in DOMAIN giveaways :
             giveaways'[g].participants # giveaways[g].participants
             => /\ lastReply'.text = "Entered"
                /\ lastReply'.mid = g
                /\ \E u \in Users \ giveaways[g].participants :
                      giveaways'[g].participants = giveaways[g].participants \cup {u}
       /\ lastReply'.text \in {"AlreadyEntered", "MissingRole"}
             => giveaways' = giveaways]_vars

\* The bonus a holder of the roles `held` gets from `table`, role id by role id.
RECURSIVE HeldBonusUpTo(_, _, _)
HeldBonusUpTo(table, held, r) ==
    IF r = 0 THEN 0
    ELSE (IF r \in held /\ r \in DOMAIN table THEN table[r] ELSE 0)
         + HeldBonusUpTo(table, held, r - 1)

HeldBonus(table, held) == HeldBonusUpTo(table, held, MemberRole)

\* C19: the entry count shown for a participant in the guild is 1 plus the
\* global bonus of every role held plus the giveaway's bonus of every role held,
\* and at least 1; a holder of the +2 and +3 roles, with no table of the
\* giveaway's own, has 6.
C19_EntryCount ==
    lastReply.text = "Participants"
    => \A i \in DOMAIN lastReply.shown :
          LET u == lastReply.shown[i][1]
              n == lastReply.shown[i][2]
              gw_extra == giveaways[lastReply.mid].extra_roles
          IN u \in members
             => /\ n = 1 + HeldBonus(BONUS_ROLES, roles[u]) + HeldBonus(gw_extra, roles[u])
                /\ n >= 1
                /\ (roles[u] = {2, 3} /\ gw_extra = EmptyTable) => n = 6

C19_Witness ==
    /\ lastReply.text = "Participants"
    /\ giveaways[lastReply.mid].extra_roles = EmptyTable
    /\ \E i \in DOMAIN lastReply.shown :
          /\ lastReply.shown[i][1] \in members
          /\ roles[lastReply.shown[i][1]] = {2, 3}
          /\ lastReply.shown[i][2] = 6

\* C20: the entry count of a participant in the guild is 1 plus, for every role
\* held, the one bonus the announcement's merged table shows for it: the
\* giveaway's own where it has one, the global one otherwise.
C20_PerGiveawayPrecedence ==
    lastReply.text = "Participants"
    => \A i \in DOMAIN lastReply.shown :
          LET u == lastReply.shown[i][1]
              n == lastReply.shown[i][2]
          IN u \in members
             => n = 1 + HeldBonus(merged_extras(giveaways[lastReply.mid].extra_roles),
                                  roles[u])

\* Whether a string is one the duration grammar allows, told from its end: a
\* string of decimal digits, or up to four components in the order d, h, m, s,
\* each a number and its unit letter, with blanks allowed around the numbers.
IsComponent(t, q) ==
    /\ Len(t) >= 2
    /\ t[Len(t)] = UnitLetters[q]
    /\ \E a \in 1 .. Len(t) - 1 : \E b \in a .. Len(t) - 1 :
          /\ \A k \in 1 .. a - 1 : t[k] \in Whitespace
          /\ \A k \in a .. b : t[k] \in DecimalDigits
          /\ \A k \in b + 1 .. Len(t) - 1 : t[k] \in Whitespace

RECURSIVE ComponentsUpTo(_, _)
ComponentsUpTo(t, r) ==
    \/ \A k \in DOMAIN t : t[k] \in Whitespace
    \/ \E i \in 1 .. Len(t), q \in 1 .. r :
          /\ IsComponent(SubSeq(t, i, Len(t)), q)
          /\ ComponentsUpTo(SubSeq(t, 1, i - 1), q - 1)

InGrammar(str) ==
    LET t == Lower(Strip(str))
    IN /\ t # <<>>
       /\ \/ \A k \in DOMAIN t : t[k] \in DecimalDigits
          \/ ComponentsUpTo(t, 4)

\* C21: a string made of components in the order d, h, m, s, or a bare positive
\* integer, parses to exactly the seconds it stands for; "1h30m" to 5400, "90s"
\* to 90, "3600" to 3600, "2d" to 172800.
C21_ExactSum ==
    secondsRet # Unset
    => /\ \A t \in ComposedTable : durationArg = t[1] => secondsRet = t[2]
       /\ durationArg = <<"1", "h", "3", "0", "m">> => secondsRet = 5400
       /\ durationArg = <<"9", "0", "s">> => secondsRet = 90
       /\ durationArg = <<"3", "6", "0", "0">> => secondsRet = 3600
       /\ durationArg = <<"2", "d">> => secondsRet = 172800

C21_Witness ==
    /\ durationArg = <<"1", "h", "3", "0", "m">>
    /\ secondsRet = 5400

\* C22: parse_duration_to_seconds always returns, None or a number; it returns
\* None for every string outside the grammar (the empty string, "-5", "30x",
\* "m5" among them) and for a total of zero, so that a number it returns is
\* positive.
C22_InvalidIsNone ==
    secondsRet # Unset
    => /\ secondsRet >= 0
       /\ ~InGrammar(durationArg) => secondsRet = None
       /\ durationArg \in { <<>>, <<"-", "5">>, <<"3", "0", "x">>, <<"m", "5">>,
                             <<"0", "s">>, <<"0">>, <<"0", "d", "0", "h">> }
             => secondsRet = None
       /\ secondsRet # None => secondsRet > 0

C24_AcceptedJoinIsInDraw ==
    ( /\ lastReply.text = "Entered"
      /\ ~EndedNow(lastReply.mid)
      /\ giveaways[lastReply.mid].participants \subseteq EligibleNow(lastReply.mid) )
    => \A p \in Procs :
          ~( /\ proc[p].mid = lastReply.mid
             /\ proc[p].pc \in {"e_edit_win", "e_edit_none"} )

\* C25: a message whose buttons can be pressed is the message of a giveaway
\* the table holds.
C25_ClickableIsTracked ==
    \A mid \in Mids : Clickable(mid) => mid \in DOMAIN giveaways

\* C26: the step in which a close's fetch_message fails (the handler at the
\* fetch returns) sets the ended flag and nothing else: no draw, no edit of any
\* message, no change of the entrants; after it a close returns at its guard
\* and a reroll passes its own.
C26_FetchFailureEndsQuietly ==
    [][\A p \in Procs :
          (proc[p].pc = "e_fetch" /\ proc'[p].pc \in {"idle", "done"})
          => \E mid \in Mids :
                /\ mid = proc[p].mid
                /\ giveaways'[mid].ended
                /\ giveaways' = MarkEnded(giveaways, mid)
                /\ draws' = draws
                /\ published' = published
                /\ msgs' = msgs
                /\ EndGuard(mid)'
                /\ ~RerollGuard(mid)']_vars

C26_Witness ==
    /\ lastReply.text = "NewWinners"
    /\ EndedNow(lastReply.mid)
    /\ draws[lastReply.mid] = 0
    /\ published[lastReply.mid] = 0
    /\ msgs[lastReply.mid] = [embed |-> "started", view |-> TRUE]

\* A handler is inside the critical section of its channel from the moment it
\* has the lock until it leaves "async with lock".
InCritical(h) == handlers[h].pc \notin {"idle", "wait_lock"}

C29_ChannelsIsolated ==
    /\ counted.res \in {"none", "accepted", "fumbled"}
    /\ counted.res = "accepted" => committed[counted.ch] = counted.n
    /\ counted.res = "fumbled" => committed[counted.ch] \in {0, Absent}

\* C30: with no handler at work in a channel, a prompt on record for the
\* channel is the prompt for the stored count plus one.
C30_PendingIsNext ==
    \A ch \in COUNTING_CHANNEL_IDS :
       ( /\ count_locks[ch] = Unlocked
         /\ \A h \in Handlers : ~(InCritical(h) /\ handlers[h].ch = ch)
         /\ pending_prompts[ch] # None )
       => pending_prompts[ch] = StoredLast(ch) + 1

====
